---------------------------- MODULE Spec2Model ----------------------------
(***************************************************************************)
(* GeoParquet "geo" metadata: the conformance fixtures of                  *)
(* tests/test_json_schema.py, the statements that build them, the two      *)
(* parametrised tests that drive the validator, and the rule set the       *)
(* validator evaluates.                                                    *)
(*                                                                         *)
(* A JSON value is a record [t, v]: t is the JSON/Python type, v the       *)
(* content.  A float is held in tenths (2015.1 is Float(20151)), an        *)
(* object is the sequence of its <<key, value>> pairs in insertion order   *)
(* (the iteration order of a Python dict).                                 *)
(***************************************************************************)
EXTENDS Integers, Sequences, FiniteSets, TLC

VARIABLES metadata, base, edit, nedits, pc, request, errors, msgs, valid, outcome,
          calls, first, shared

\* calls counts the runs of a test on metadata; first is the violation list
\* the first of two runs left.  shared is the set of names of
\* metadata["columns"] bound to one and the same dict object (empty when no
\* two names are): a write through one of them shows under each.
vars == <<metadata, base, edit, nedits, pc, request, errors, msgs, valid, outcome,
          calls, first, shared>>

(* ------------------------------ bounds --------------------------------- *)

\* Mutating statements applied to one deep copy of the template.
MaxEdits == 2

\* Longest geometry_types array built from the vocabulary sample.
MaxTypes == 3

(* --------------------------- JSON values -------------------------------- *)

Str(s) == [t |-> "str", v |-> s]
IntV(n) == [t |-> "int", v |-> n]
Float(tenths) == [t |-> "float", v |-> tenths]
Null == [t |-> "null", v |-> 0]
Arr(s) == [t |-> "arr", v |-> s]
Obj(pairs) == [t |-> "obj", v |-> pairs]

IsObj(x) == x.t = "obj"
IsArr(x) == x.t = "arr"
IsStr(x) == x.t = "str"
IsNull(x) == x.t = "null"
\* Number: integer or floating, treated uniformly.
IsNum(x) == x.t \in {"int", "float"}

\* Value equality of two scalars; 0 and 0.0 are the same number.
Tenths(x) == IF x.t = "int" THEN 10 * x.v ELSE x.v
JEq(a, b) ==
    IF IsNum(a) /\ IsNum(b) THEN Tenths(a) = Tenths(b)
    ELSE /\ a.t = b.t
         /\ a.t \in {"str", "null"}
         /\ (a.t = "str" => a.v = b.v)

HasKey(o, k) == \E i \in 1..Len(o.v) : o.v[i][1] = k
IndexOf(o, k) == CHOOSE i \in 1..Len(o.v) : o.v[i][1] = k
Get(o, k) == o.v[IndexOf(o, k)][2]

\* [x] * (n + 1)
RepeatOffByOne(x, n) == [i \in 1..(n + 1) |-> x]

\* [x] * n
Repeat(x, n) == [i \in 1..n |-> x]

\* copy.deepcopy: a value with no sharing; values here are immutable.
deepcopy(x) == x

\* The KeyError a dict raises for a key it does not hold.
KeyError(k) == [t |-> "KeyError", v |-> k]
IsKeyError(x) == x.t = "KeyError"

\* d.pop(k): the dict without k, the other keys in their order; KeyError
\* when k is no key of d (pop is called without a default).
popBroken(o, k) == o
pop(o, k) ==
    IF HasKey(o, k) THEN Obj(SelectSeq(o.v, LAMBDA p : p[1] # k))
    ELSE KeyError(k)

\* d[k] = x: in place when k is a key of d, appended otherwise.
setitemNoop(o, k, x) == o
setitem(o, k, x) ==
    IF HasKey(o, k)
    THEN Obj([i \in 1..Len(o.v) |-> IF o.v[i][1] = k THEN <<k, x>> ELSE o.v[i]])
    ELSE Obj(Append(o.v, <<k, x>>))

\* setcol writing geometry_types under the key of the earlier metadata
\* version, "geometry_type".
setcolStaleKey(m, c, k, x) ==
    LET kk == IF k = "geometry_types" THEN "geometry_type" ELSE k IN
    setitem(m, "columns",
            setitem(Get(m, "columns"), c,
                    setitem(Get(Get(m, "columns"), c), kk, x)))

\* metadata[k] = x where metadata["columns"][c][k] = x was meant
setcolTopLevel(m, c, k, x) == setitem(m, k, x)

\* metadata["columns"][c][k] = x; KeyError when a subscript read on the way
\* finds no such key.
setcol(m, c, k, x) ==
    IF ~HasKey(m, "columns") THEN KeyError("columns")
    ELSE IF ~HasKey(Get(m, "columns"), c) THEN KeyError(c)
    ELSE setitem(m, "columns",
                 setitem(Get(m, "columns"), c,
                         setitem(Get(Get(m, "columns"), c), k, x)))

\* metadata["columns"][c].pop(k)
popcol(m, c, k) ==
    IF ~HasKey(m, "columns") THEN KeyError("columns")
    ELSE IF ~HasKey(Get(m, "columns"), c) THEN KeyError(c)
    ELSE LET popped == pop(Get(Get(m, "columns"), c), k) IN
         IF IsKeyError(popped) THEN popped
         ELSE setitem(m, "columns", setitem(Get(m, "columns"), c, popped))

\* metadata["columns"][c]; KeyError when a subscript finds no such key.
getcol(m, c) ==
    IF ~HasKey(m, "columns") THEN KeyError("columns")
    ELSE IF ~HasKey(Get(m, "columns"), c) THEN KeyError(c)
    ELSE Get(Get(m, "columns"), c)

\* metadata["columns"][c][k] = x seen under every name of cs, the names
\* bound to the dict the statement writes.
RECURSIVE setcols(_, _, _, _)
setcols(m, cs, k, x) ==
    IF cs = <<>> \/ IsKeyError(m) THEN m
    ELSE setcols(setcol(m, cs[1], k, x), Tail(cs), k, x)

\* metadata["columns"][c].pop(k) seen under every name of cs.
RECURSIVE popcols(_, _, _)
popcols(m, cs, k) ==
    IF cs = <<>> \/ IsKeyError(m) THEN m
    ELSE popcols(popcol(m, cs[1], k), Tail(cs), k)

metadata_templateStale ==
    Obj(<< <<"version", Str("0.5.0-dev")>>,
           <<"primary_column", Str("geometry")>>,
           <<"columns", Obj(<< <<"geometry",
                 Obj(<< <<"encoding", Str("WKB")>>,
                        <<"geometry_type", Arr(<<>>)>> >>)>> >>)>> >>)
metadata_template ==
    Obj(<< <<"version", Str("0.5.0-dev")>>,
           <<"primary_column", Str("geometry")>>,
           <<"columns", Obj(<< <<"geometry",
                 Obj(<< <<"encoding", Str("WKB")>>,
                        <<"geometry_types", Arr(<<>>)>> >>)>> >>)>> >>)


(* ------------------------------ rule set -------------------------------- *)

\* The geometry-type vocabulary: seven names and their " Z" variants.
GeometryTypes ==
    {"Point", "LineString", "Polygon", "MultiPoint", "MultiLineString",
     "MultiPolygon", "GeometryCollection",
     "Point Z", "LineString Z", "Polygon Z", "MultiPoint Z",
     "MultiLineString Z", "MultiPolygon Z", "GeometryCollection Z"}

Encodings == {"WKB"}
Orientations == {"counterclockwise"}
EdgesValues == {"planar", "spherical"}
BboxLengths == {4, 6}

\* Constraint-declaration order of the ColumnSpec fields.
ColumnFields ==
    <<"encoding", "geometry_types", "crs", "bbox", "orientation", "edges", "epoch">>

\* One reported constraint failure.  index is <<>> or <<i>>, the 0-based
\* array position the violation cites.
\* The description the rule set attaches to a field's rules, if any.
FieldDescription(k) ==
    CASE k = "version" ->
           <<"Semantic version of the schema this document conforms to">>
      [] k = "crs" -> <<"A structured description of the spatial reference">>
      [] k = "bbox" -> <<"Bounding box array, 4 (2-D) or 6 (3-D) numeric elements">>
      [] k = "orientation" -> <<"Declared polygon ring winding order">>
      [] k = "edges" -> <<"Interpolation model between vertices">>
      [] k = "epoch" -> <<"Numeric reference epoch for a dynamic CRS">>
      [] OTHER -> <<>>

\* The rule a violation comes from, as the test reads it (error.schema): an
\* object that holds "description" when the rule supplies one.  A rule on a
\* field's value is that field's rule; required and the rules on a whole
\* map are the enclosing object's, which carries no description.
RuleSchema(rule, path) ==
    LET d == IF rule # "required" /\ Len(path) \in {1, 3}
             THEN FieldDescription(path[Len(path)]) ELSE <<>>
    IN  IF d = <<>> THEN Obj(<<>>) ELSE Obj(<< <<"description", Str(d[1])>> >>)

Violation(kind, rule, path, index) ==
    [kind |-> kind, rule |-> rule, path |-> path, index |-> index,
     schema |-> RuleSchema(rule, path)]

StructuralViolation == "StructuralViolation"
TypeViolation == "TypeViolation"
EnumViolation == "EnumViolation"
CardinalityViolation == "CardinalityViolation"

\* 0-based position of the first element equal to an earlier one.
IsDup(s, j) == \E i \in 1..(j - 1) : JEq(s[i], s[j])
HasDup(s) == \E j \in 1..Len(s) : IsDup(s, j)
FirstDup(s) == (CHOOSE j \in 1..Len(s) :
                   IsDup(s, j) /\ \A l \in 1..(j - 1) : ~IsDup(s, l)) - 1

\* required + string + membership in a fixed vocabulary.
CheckEnum(o, path, k, vocab, required) ==
    IF ~HasKey(o, k)
    THEN IF required
         THEN <<Violation(StructuralViolation, "required", Append(path, k), <<>>)>>
         ELSE <<>>
    ELSE LET x == Get(o, k) IN
         IF ~IsStr(x) THEN <<Violation(TypeViolation, "type", Append(path, k), <<>>)>>
         ELSE IF x.v \notin vocab
         THEN <<Violation(EnumViolation, "enum", Append(path, k), <<>>)>>
         ELSE <<>>

CheckEncoding(col, path) == CheckEnum(col, path, "encoding", Encodings, TRUE)

BadType(x) == ~IsStr(x) \/ x.v \notin GeometryTypes

\* 0-based position of the first element outside the vocabulary.
FirstBadType(s) == (CHOOSE i \in 1..Len(s) :
                       BadType(s[i]) /\ \A j \in 1..(i - 1) : ~BadType(s[j])) - 1

CheckGeometryTypes(col, path) ==
    LET p == Append(path, "geometry_types") IN
    IF ~HasKey(col, "geometry_types")
    THEN <<Violation(StructuralViolation, "required", p, <<>>)>>
    ELSE LET x == Get(col, "geometry_types") IN
         IF ~IsArr(x) THEN <<Violation(TypeViolation, "type", p, <<>>)>>
         ELSE (IF \E i \in 1..Len(x.v) : BadType(x.v[i])
               THEN <<Violation(EnumViolation, "enum", p, <<FirstBadType(x.v)>>)>>
               ELSE <<>>)
              \o
              (IF HasDup(x.v)
               THEN <<Violation(CardinalityViolation, "unique-items", p, <<FirstDup(x.v)>>)>>
               ELSE <<>>)

CheckCrs(col, path) ==
    IF ~HasKey(col, "crs") THEN <<>>
    ELSE LET x == Get(col, "crs") IN
         IF IsNull(x) \/ IsObj(x) THEN <<>>
         ELSE <<Violation(TypeViolation, "type", Append(path, "crs"), <<>>)>>

NotNum(x) == ~IsNum(x)

\* 0-based position of the first element that is not a number.
FirstNotNum(s) == (CHOOSE i \in 1..Len(s) :
                      NotNum(s[i]) /\ \A j \in 1..(i - 1) : ~NotNum(s[j])) - 1

CheckBbox(col, path) ==
    LET p == Append(path, "bbox") IN
    IF ~HasKey(col, "bbox") THEN <<>>
    ELSE LET x == Get(col, "bbox") IN
         IF ~IsArr(x) THEN <<Violation(TypeViolation, "type", p, <<>>)>>
         ELSE (IF Len(x.v) \notin BboxLengths
               THEN <<Violation(CardinalityViolation, "array-length", p, <<>>)>>
               ELSE <<>>)
              \o
              (IF \E i \in 1..Len(x.v) : NotNum(x.v[i])
               THEN <<Violation(TypeViolation, "items-type", p, <<FirstNotNum(x.v)>>)>>
               ELSE <<>>)

CheckOrientation(col, path) ==
    CheckEnum(col, path, "orientation", Orientations, FALSE)

CheckEdges(col, path) == CheckEnum(col, path, "edges", EdgesValues, FALSE)

CheckEpoch(col, path) ==
    IF ~HasKey(col, "epoch") THEN <<>>
    ELSE IF IsNum(Get(col, "epoch")) THEN <<>>
    ELSE <<Violation(TypeViolation, "type", Append(path, "epoch"), <<>>)>>

\* The full ColumnSpec rule set on one column object, in declaration order.
CheckColumnSpec(col, path) ==
    CheckEncoding(col, path) \o CheckGeometryTypes(col, path)
    \o CheckCrs(col, path) \o CheckBbox(col, path)
    \o CheckOrientation(col, path) \o CheckEdges(col, path)
    \o CheckEpoch(col, path)

\* One entry of columns: an object is checked in full, anything else is one
\* "invalid column object" violation and is not descended into.
CheckColumn(name, x) ==
    IF IsObj(x) THEN CheckColumnSpec(x, <<"columns", name>>)
    ELSE <<Violation(TypeViolation, "invalid-column-object", <<"columns", name>>, <<>>)>>

RECURSIVE CheckColumns(_, _)
CheckColumns(cols, i) ==
    IF i > Len(cols.v) THEN <<>>
    ELSE CheckColumn(cols.v[i][1], cols.v[i][2]) \o CheckColumns(cols, i + 1)

CheckVersion(doc) ==
    IF ~HasKey(doc, "version")
    THEN <<Violation(StructuralViolation, "required", <<"version">>, <<>>)>>
    ELSE IF ~IsStr(Get(doc, "version"))
    THEN <<Violation(TypeViolation, "type", <<"version">>, <<>>)>>
    ELSE <<>>

CheckPrimaryColumn(doc) ==
    IF ~HasKey(doc, "primary_column")
    THEN <<Violation(StructuralViolation, "required", <<"primary_column">>, <<>>)>>
    ELSE LET x == Get(doc, "primary_column") IN
         IF ~IsStr(x) THEN <<Violation(TypeViolation, "type", <<"primary_column">>, <<>>)>>
         ELSE IF x.v = ""
         THEN <<Violation(CardinalityViolation, "non-empty", <<"primary_column">>, <<>>)>>
         ELSE <<>>

\* columns itself: required, an object, non-empty, every key non-empty.
CheckColumnsMap(doc) ==
    IF ~HasKey(doc, "columns")
    THEN <<Violation(StructuralViolation, "required", <<"columns">>, <<>>)>>
    ELSE LET x == Get(doc, "columns") IN
         IF ~IsObj(x) THEN <<Violation(StructuralViolation, "type", <<"columns">>, <<>>)>>
         ELSE (IF Len(x.v) = 0
               THEN <<Violation(CardinalityViolation, "non-empty", <<"columns">>, <<>>)>>
               ELSE <<>>)
              \o
              (IF HasKey(x, "")
               THEN <<Violation(CardinalityViolation, "non-empty-key", <<"columns">>, <<>>)>>
               ELSE <<>>)

CanDescend(doc) == HasKey(doc, "columns") /\ IsObj(Get(doc, "columns"))

\* validate(document, ruleSet): every violation of the document, document
\* level first, then the columns in map order.
validate(doc) ==
    IF ~IsObj(doc) THEN <<Violation(StructuralViolation, "type", <<>>, <<>>)>>
    ELSE CheckVersion(doc) \o CheckPrimaryColumn(doc) \o CheckColumnsMap(doc)
         \o (IF CanDescend(doc) THEN CheckColumns(Get(doc, "columns"), 1) ELSE <<>>)


(* --------------------------- fixture catalog ---------------------------- *)

T == deepcopy(metadata_template)

\* metadata["columns"][new] = metadata["columns"].pop(old)
rename(m, old, new) ==
    IF ~HasKey(m, "columns") THEN KeyError("columns")
    ELSE LET cols == Get(m, "columns")
             popped == pop(cols, old)
         IN  IF IsKeyError(popped) THEN popped
             ELSE setitem(m, "columns", setitem(popped, new, Get(cols, old)))

\* metadata[name] = x where metadata["columns"][name] = x was meant
addcolTop(m, name, x) == setitem(m, name, x)

\* metadata["columns"][name] = x; KeyError when metadata holds no columns.
addcol(m, name, x) ==
    IF ~HasKey(m, "columns") THEN KeyError("columns")
    ELSE setitem(m, "columns", setitem(Get(m, "columns"), name, x))

Case(id, m) == [id |-> id, metadata |-> m]

\* The names a case's statements left bound to one dict: line 103 binds ""
\* to the dict of "geometry" without a copy.
CaseShared(id) ==
    IF id = "geometry_column_name_empty" THEN {"geometry", ""} ELSE {}

valid_cases ==
    << Case("minimal", T),
       Case("custom_key", setitem(T, "custom_key", Str("value"))),
       Case("custom_key_column", setcol(T, "geometry", "custom_key", Str("value"))),
       Case("geometry_columns_multiple",
            addcol(T, "other_geom", deepcopy(Get(Get(T, "columns"), "geometry")))),
       Case("geometry_column_name",
            rename(setitem(T, "primary_column", Str("geom")), "geometry", "geom")),
       Case("geometry_type_list",
            setcol(T, "geometry", "geometry_types", Arr(<<Str("Point")>>))),
       Case("crs_null", setcol(T, "geometry", "crs", Null)),
       Case("bbox_4_element",
            setcol(T, "geometry", "bbox", Arr(Repeat(IntV(0), 4)))),
       Case("bbox_6_element",
            setcol(T, "geometry", "bbox", Arr(Repeat(Float(0), 6)))),
       Case("orientation",
            setcol(T, "geometry", "orientation", Str("counterclockwise"))),
       Case("edges_planar", setcol(T, "geometry", "edges", Str("planar"))),
       Case("edges_spherical", setcol(T, "geometry", "edges", Str("spherical"))),
       Case("epoch", setcol(T, "geometry", "epoch", Float(20151))) >>

invalid_cases ==
    << Case("missing_version", pop(T, "version")),
       Case("missing_primary_column", pop(T, "primary_column")),
       Case("missing_columns", pop(T, "columns")),
       Case("missing_columns_entry", setitem(T, "columns", Obj(<<>>))),
       Case("missing_geometry_encoding", popcol(T, "geometry", "encoding")),
       Case("missing_geometry_type", popcol(T, "geometry", "geometry_types")),
       Case("geometry_columns_invalid_object",
            addcol(T, "invalid_column_object", Str("foo"))),
       Case("geometry_column_name_primary_empty",
            setitem(T, "primary_column", Str(""))),
       Case("geometry_column_name_empty",
            addcol(T, "", Get(Get(T, "columns"), "geometry"))),
       Case("encoding", setcol(T, "geometry", "encoding", Str("WKT"))),
       Case("geometry_type_string",
            setcol(T, "geometry", "geometry_types", Str("Point"))),
       Case("geometry_type_nonexistent",
            setcol(T, "geometry", "geometry_types", Arr(<<Str("Curve")>>))),
       Case("geometry_type_uniqueness",
            setcol(T, "geometry", "geometry_types",
                   Arr(<<Str("Point"), Str("Point")>>))),
       Case("geometry_type_z_missing_space",
            setcol(T, "geometry", "geometry_types", Arr(<<Str("PointZ")>>))),
       Case("crs_string", setcol(T, "geometry", "crs", Str("EPSG:4326"))),
       Case("bbox_3_element",
            setcol(T, "geometry", "bbox", Arr(Repeat(IntV(0), 3)))),
       Case("bbox_5_element",
            setcol(T, "geometry", "bbox", Arr(Repeat(IntV(0), 5)))),
       Case("bbox_7_element",
            setcol(T, "geometry", "bbox", Arr(Repeat(IntV(0), 7)))),
       Case("bbox_invalid_type",
            setcol(T, "geometry", "bbox", Arr(Repeat(Str("0"), 4)))),
       Case("orientation", setcol(T, "geometry", "orientation", Str("clockwise"))),
       Case("edges", setcol(T, "geometry", "edges", Str("ellipsoid"))),
       Case("epoch_string", setcol(T, "geometry", "epoch", Str("2015.1"))) >>


(* ------------------------- inputs of the edits -------------------------- *)

RequiredTop == {"version", "primary_column", "columns"}
RequiredColumn == {"encoding", "geometry_types"}

\* A custom key that collides with a key of the rule set.
CustomKeysClash == {"custom_key", "crs"}

\* Keys no rule names; "geometry_type" is the key examples/example.py writes.
CustomKeys == {"custom_key", "geometry_type"}
CustomValues == {Str("value"), Null, Arr(<<Str("Polygon"), Str("MultiPolygon")>>)}

\* Arrays of vocabulary members, up to MaxTypes long.
TypeSample == {"Point", "Polygon Z", "MultiLineString"}
TypeArrays ==
    UNION {{Arr([i \in 1..n |-> Str(f[i])]) : f \in [1..n -> TypeSample]} :
              n \in 0..MaxTypes}

\* A CRS as WKT text, as examples/example.py writes it.
WktText == "GEOGCRS[\"WGS 84 (CRS84)\"]"

TopValues ==
    {<<"columns", Obj(<<>>)>>, <<"columns", Str("foo")>>,
     <<"primary_column", Str("geom")>>, <<"primary_column", Str("")>>}

ColumnValues ==
    {<<"encoding", Str("WKT")>>,
     <<"geometry_types", Str("Point")>>,
     <<"geometry_types", Arr(<<Str("Curve")>>)>>,
     <<"geometry_types", Arr(<<Str("PointZ")>>)>>,
     <<"geometry_types", Arr(<<Str("Point")>>)>>,
     <<"geometry_types", Arr(<<Str("Point"), Str("Point")>>)>>,
     <<"bbox", Arr(<<IntV(0), Str("0"), IntV(0), IntV(0)>>)>>,
     <<"bbox", Arr(<<IntV(0), Float(5), Str("0")>>)>>,
     <<"bbox", Arr(Repeat(Float(0), 6))>>,
     <<"crs", Null>>, <<"crs", Str("EPSG:4326")>>, <<"crs", Str(WktText)>>,
     <<"crs", Obj(<< <<"type", Str("GeographicCRS")>> >>)>>,
     <<"orientation", Str("counterclockwise")>>,
     <<"orientation", Str("clockwise")>>,
     <<"edges", Str("planar")>>, <<"edges", Str("spherical")>>,
     <<"edges", Str("ellipsoid")>>,
     <<"epoch", Float(20151)>>, <<"epoch", Str("2015.1")>>}

BboxElements == {IntV(0), Str("0")}
BboxSizes == 3..7

\* The names and the three right-hand sides of the column assignments: the
\* string "foo", copy.deepcopy(metadata["columns"]["geometry"]) and
\* metadata["columns"]["geometry"] itself.
NewColumns ==
    {"other_geom", "invalid_column_object", ""} \X {"value", "deepcopy", "alias"}

\* The names of metadata["columns"], in map order, that a write through
\* name c reaches: every name bound to c's dict.
Bound(m, s, c) ==
    IF c \in s
    THEN LET cols == Get(m, "columns").v
             names == [i \in 1..Len(cols) |-> cols[i][1]]
         IN  SelectSeq(names, LAMBDA n : n \in s)
    ELSE <<c>>

\* A dict one name alone is bound to is shared with none.
Sharing(s) == IF Cardinality(s) < 2 THEN {} ELSE s

ObjectColumns(m) ==
    IF CanDescend(m)
    THEN {Get(m, "columns").v[i][1] : i \in
             {j \in 1..Len(Get(m, "columns").v) : IsObj(Get(m, "columns").v[j][2])}}
    ELSE {}

(* ------------------------------ the state ------------------------------- *)

\* The latest mutating statement: its kind, the column it addresses (<<>> at
\* the document level), the key, the value assigned and, for [x] * n, n;
\* for a column assignment, how its right-hand side is written.
NoEdit == [op |-> "none", col |-> <<>>, key |-> "", val |-> Null, n |-> 0, how |-> ""]
Edit(op, col, key, val, n) ==
    [op |-> op, col |-> col, key |-> key, val |-> val, n |-> n, how |-> ""]
EditColumn(name, how, val) ==
    [op |-> "addcol", col |-> <<name>>, key |-> "", val |-> val, n |-> 0, how |-> how]

Init ==
    /\ metadata = deepcopy(metadata_template)
    /\ base = deepcopy(metadata_template)
    /\ edit = NoEdit
    /\ nedits = 0
    /\ pc = "build"
    /\ request = "none"
    /\ errors = <<>>
    /\ msgs = <<>>
    /\ valid = TRUE
    /\ outcome = "none"
    /\ calls = 0
    /\ first = <<>>
    /\ shared = {}

NoRun == UNCHANGED <<pc, request, errors, msgs, valid, outcome, calls, first>>

CanEdit == pc = "build" /\ nedits < MaxEdits

Apply(m, e, s) ==
    /\ metadata' = m
    /\ base' = metadata
    /\ edit' = e
    /\ nedits' = nedits + 1
    /\ shared' = Sharing(s)
    /\ NoRun

\* metadata = copy.deepcopy(metadata_template): the next case starts.
Deepcopy ==
    /\ metadata' = deepcopy(metadata_template)
    /\ base' = deepcopy(metadata_template)
    /\ edit' = NoEdit
    /\ nedits' = 0
    /\ pc' = "build"
    /\ request' = "none"
    /\ errors' = <<>>
    /\ msgs' = <<>>
    /\ valid' = TRUE
    /\ outcome' = "none"
    /\ calls' = 0
    /\ first' = <<>>
    /\ shared' = {}

\* metadata.pop(k)
PopTop ==
    /\ CanEdit
    /\ \E k \in RequiredTop :
           /\ HasKey(metadata, k)
           /\ Apply(pop(metadata, k), Edit("pop", <<>>, k, Null, 0),
                    IF k = "columns" THEN {} ELSE shared)

\* metadata["columns"][c].pop(k)
PopColumnKey ==
    /\ CanEdit
    /\ \E c \in ObjectColumns(metadata) : \E k \in RequiredColumn :
           /\ HasKey(Get(Get(metadata, "columns"), c), k)
           /\ Apply(popcols(metadata, Bound(metadata, shared, c), k),
                    Edit("pop", <<c>>, k, Null, 0), shared)

\* metadata[k] = x for a key the rule set names
SetTop ==
    /\ CanEdit
    /\ \E kx \in TopValues :
           /\ Apply(setitem(metadata, kx[1], kx[2]), Edit("set", <<>>, kx[1], kx[2], 0),
                    IF kx[1] = "columns" THEN {} ELSE shared)

\* metadata["columns"][c][k] = x for a key the rule set names
SetColumnKey ==
    /\ CanEdit
    /\ \E c \in ObjectColumns(metadata) : \E kx \in ColumnValues :
           /\ Apply(setcols(metadata, Bound(metadata, shared, c), kx[1], kx[2]),
                    Edit("set", <<c>>, kx[1], kx[2], 0), shared)

\* metadata["columns"][c]["bbox"] = [x] * n
SetBbox ==
    /\ CanEdit
    /\ \E c \in ObjectColumns(metadata) : \E x \in BboxElements : \E n \in BboxSizes :
           /\ Apply(setcols(metadata, Bound(metadata, shared, c), "bbox",
                            Arr(Repeat(x, n))),
                    Edit("bbox", <<c>>, "bbox", x, n), shared)

\* metadata["custom_key"] = x
SetCustomKey ==
    /\ CanEdit
    /\ \E k \in CustomKeys : \E x \in CustomValues :
           /\ Apply(setitem(metadata, k, x), Edit("custom", <<>>, k, x, 0), shared)

\* metadata["columns"][c]["custom_key"] = x
SetCustomColumnKey ==
    /\ CanEdit
    /\ \E c \in ObjectColumns(metadata) : \E k \in CustomKeys : \E x \in CustomValues :
           /\ Apply(setcols(metadata, Bound(metadata, shared, c), k, x),
                    Edit("custom", <<c>>, k, x, 0), shared)

\* metadata["columns"][name] = "foo"
\* metadata["columns"][name] = copy.deepcopy(metadata["columns"]["geometry"])
\* metadata["columns"][name] = metadata["columns"]["geometry"]
\* The right-hand side is read from the document as it is now, and a
\* KeyError raised there leaves the document alone.  A name columns holds
\* already keeps its place and is bound to the new value; bound to the dict
\* of "geometry" without a copy, it shares that dict from then on.
AddColumn ==
    /\ CanEdit
    /\ CanDescend(metadata)
    /\ \E nh \in NewColumns :
           LET name == nh[1]
               how == nh[2]
               x == CASE how = "value" -> Str("foo")
                      [] how = "deepcopy" -> deepcopy(getcol(metadata, "geometry"))
                      [] OTHER -> getcol(metadata, "geometry")
           IN  /\ ~IsKeyError(x)
               /\ Apply(addcol(metadata, name, x), EditColumn(name, how, x),
                        IF how = "alias" /\ IsObj(x)
                        THEN shared \cup {"geometry", name}
                        ELSE shared \ {name})

\* metadata["columns"]["geom"] = metadata["columns"].pop("geometry")
RenameColumn ==
    /\ CanEdit
    /\ CanDescend(metadata)
    /\ HasKey(Get(metadata, "columns"), "geometry")
    /\ Apply(rename(metadata, "geometry", "geom"), Edit("rename", <<"geom">>, "", Null, 0),
             IF "geometry" \in shared
             THEN (shared \ {"geometry"}) \cup {"geom"}
             ELSE shared \ {"geom"})

(* ------------------------------ the tests ------------------------------- *)

\* error.json_path
json_path(e) == [root |-> "$", keys |-> e.path, index |-> e.index]

\* error.message
message(e) == [kind |-> e.kind, rule |-> e.rule]

\* msg = f"- {error.json_path}: {error.message}", and
\* msg += f". {error.schema['description']}" if "description" in
\* error.schema; the string is held as the sequence of its parts.
Msg(e) ==
    <<"- ", json_path(e), ": ", message(e)>>
    \o (IF HasKey(e.schema, "description")
        THEN <<". ", Get(e.schema, "description").v>>
        ELSE <<>>)

\* test_valid_schema with a break after the first error.
test_valid_schema_first(id, m) ==
    /\ metadata' = m
    /\ request' = id
    /\ errors' = validate(m)
    /\ msgs' = IF Len(errors') = 0 THEN <<>> ELSE <<Msg(errors'[1])>>
    /\ valid' = (Len(errors') = 0)
    /\ outcome' = IF Len(errors') = 0 THEN "passed" ELSE "AssertionError"
    /\ pc' = "valid"

\* test_valid_schema reading, on a second run, the iterator of errors the
\* first run consumed instead of one from a new iter_errors call.
test_valid_schema_consumed(id, m) ==
    /\ metadata' = m
    /\ request' = id
    /\ errors' = IF calls >= 1 THEN <<>> ELSE validate(m)
    /\ msgs' = [i \in 1..Len(errors') |-> Msg(errors'[i])]
    /\ valid' = (Len(errors') = 0)
    /\ outcome' = IF Len(errors') = 0 THEN "passed" ELSE "AssertionError"
    /\ pc' = "valid"

\* test_valid_schema(request, metadata)
test_valid_schema(id, m) ==
    /\ metadata' = m
    /\ request' = id
    /\ errors' = validate(m)
    /\ msgs' = [i \in 1..Len(errors') |-> Msg(errors'[i])]
    /\ valid' = (Len(errors') = 0)
    /\ outcome' = IF Len(errors') = 0 THEN "passed" ELSE "AssertionError"
    /\ pc' = "valid"

\* test_invalid_schema(request, metadata)
test_invalid_schema(id, m) ==
    /\ metadata' = m
    /\ request' = id
    /\ errors' = validate(m)
    /\ msgs' = <<>>
    /\ valid' = TRUE
    /\ outcome' = IF Len(errors') = 0 THEN "AssertionError" ELSE "passed"
    /\ pc' = "invalid"

\* @pytest.mark.parametrize("metadata", valid_cases.values(), ids=valid_cases.keys())
\* A case's run reads the catalog alone, not the document under
\* construction, so it is taken from the fresh copy.
RunValidCase ==
    \E i \in 1..Len(valid_cases) :
        /\ pc = "build" /\ nedits = 0
        /\ test_valid_schema(valid_cases[i].id, valid_cases[i].metadata)
        /\ base' = deepcopy(metadata_template)
        /\ edit' = NoEdit
        /\ nedits' = 0
        /\ calls' = 1
        /\ first' = <<>>
        /\ shared' = CaseShared(valid_cases[i].id)

\* @pytest.mark.parametrize("metadata", invalid_cases.values(), ids=invalid_cases.keys())
RunInvalidCase ==
    \E i \in 1..Len(invalid_cases) :
        /\ pc = "build" /\ nedits = 0
        /\ test_invalid_schema(invalid_cases[i].id, invalid_cases[i].metadata)
        /\ base' = deepcopy(metadata_template)
        /\ edit' = NoEdit
        /\ nedits' = 0
        /\ calls' = 1
        /\ first' = <<>>
        /\ shared' = CaseShared(invalid_cases[i].id)

\* The same two tests on the document the edits have built.
RunValidBuilt ==
    /\ pc = "build"
    /\ test_valid_schema("built", metadata)
    /\ calls' = 1
    /\ UNCHANGED <<base, edit, nedits, first, shared>>

\* test_valid_schema run a second time on the same case: a new call of the
\* validator on the same document, the first call's list kept in first.
RerunValid ==
    /\ pc = "valid"
    /\ calls = 1
    /\ test_valid_schema(request, metadata)
    /\ calls' = 2
    /\ first' = errors
    /\ UNCHANGED <<base, edit, nedits, shared>>

RunInvalidBuilt ==
    /\ pc = "build"
    /\ test_invalid_schema("built", metadata)
    /\ calls' = 1
    /\ UNCHANGED <<base, edit, nedits, first, shared>>

\* test_invalid_schema run a second time on the same case.
RerunInvalid ==
    /\ pc = "invalid"
    /\ calls = 1
    /\ test_invalid_schema(request, metadata)
    /\ calls' = 2
    /\ first' = errors
    /\ UNCHANGED <<base, edit, nedits, shared>>

Next ==
    \/ Deepcopy
    \/ PopTop
    \/ PopColumnKey
    \/ SetTop
    \/ SetColumnKey
    \/ SetBbox
    \/ SetCustomKey
    \/ SetCustomColumnKey
    \/ AddColumn
    \/ RenameColumn
    \/ RunValidCase
    \/ RunInvalidCase
    \/ RunValidBuilt
    \/ RunInvalidBuilt

Spec == Init /\ [][Next]_vars

\* The statements again, with each test run a second time on the document
\* it has just read: test_valid_schema on the documents the statements
\* build and on its cases, test_invalid_schema on its cases.
NextTwice ==
    \/ Deepcopy
    \/ PopTop
    \/ PopColumnKey
    \/ SetTop
    \/ SetColumnKey
    \/ SetBbox
    \/ SetCustomKey
    \/ SetCustomColumnKey
    \/ AddColumn
    \/ RenameColumn
    \/ RunValidCase
    \/ RunInvalidCase
    \/ RunValidBuilt
    \/ RerunValid
    \/ RerunInvalid

SpecTwice == Init /\ [][NextTwice]_vars

\* The tests on a template whose geometry_types is any array of TypeArrays:
\* metadata["columns"]["geometry"]["geometry_types"] = a.
InitTypes ==
    /\ \E a \in TypeArrays :
           /\ metadata = setcol(deepcopy(metadata_template), "geometry",
                                "geometry_types", a)
           /\ edit = Edit("set", <<"geometry">>, "geometry_types", a, 0)
    /\ base = deepcopy(metadata_template)
    /\ nedits = 1
    /\ pc = "build"
    /\ request = "none"
    /\ errors = <<>>
    /\ msgs = <<>>
    /\ valid = TRUE
    /\ outcome = "none"
    /\ calls = 0
    /\ first = <<>>
    /\ shared = {}

NextTypes == RunValidBuilt \/ RunInvalidBuilt

SpecTypes == InitTypes /\ [][NextTypes]_vars


(* ------------------------------ properties ------------------------------ *)

\* A test has run: errors is the violation list of metadata.
Tested == pc \in {"valid", "invalid"}

IsPrefix(p, q) == Len(p) <= Len(q) /\ SubSeq(q, 1, Len(p)) = p

\* The violations whose path is exactly p / lies at or below p.
At(p) == SelectSeq(errors, LAMBDA e : e.path = p)
Under(p) == SelectSeq(errors, LAMBDA e : IsPrefix(p, e.path))
Below(p) == SelectSeq(errors, LAMBDA e : IsPrefix(p, e.path) /\ e.path # p)

\* The path of key k of the column (or document) an edit addresses.
EditPath(e) ==
    IF e.col = <<>> THEN <<e.key>> ELSE <<"columns", e.col[1], e.key>>

\* C1: every fixture of valid_cases yields an empty violation list and every
\* fixture of invalid_cases a list of at least one violation, so both
\* parametrised tests pass on the whole catalog.
C1_CatalogRoundTrip ==
    /\ (pc = "valid" /\ request # "built") =>
           (Len(errors) = 0 /\ valid /\ outcome = "passed")
    /\ (pc = "invalid" /\ request # "built") =>
           (Len(errors) >= 1 /\ outcome = "passed")

C1_Witness ==
    /\ pc = "invalid"
    /\ request = "geometry_column_name_empty"
    /\ Len(errors) >= 1
    /\ outcome = "passed"

\* C2: popping a required key (version, primary_column, columns; encoding,
\* geometry_types of a column) from a document without violations gives a
\* document with at least one violation whose path is that key's path.
C2_RequiredKeyRemoved ==
    (Tested /\ edit.op = "pop" /\ Len(validate(base)) = 0) =>
        /\ Len(errors) >= 1
        /\ \E i \in 1..Len(errors) : errors[i].path = EditPath(edit)

C2_Witness ==
    /\ Tested
    /\ edit.op = "pop"
    /\ edit.col = <<"other_geom">>
    /\ edit.key = "geometry_types"
    /\ Len(validate(base)) = 0
    /\ Len(At(<<"columns", "other_geom", "geometry_types">>)) = 1

\* C3: assigning a key no rule names, with any value, at the document level
\* or inside a column object leaves the violation list as it was.
C3_UnrecognisedKeyIgnored ==
    (Tested /\ edit.op = "custom") => errors = validate(base)

C3_Witness ==
    /\ Tested
    /\ edit.op = "custom"
    /\ edit.col = <<"geometry">>
    /\ edit.key = "geometry_type"
    /\ Len(validate(base)) = 0
    /\ Len(errors) = 0
    /\ HasKey(Get(Get(metadata, "columns"), "geometry"), "geometry_type")

\* The defects of the two sibling top-level fields, read off the document.
VersionDefect(m) == ~HasKey(m, "version") \/ ~IsStr(Get(m, "version"))
PrimaryDefect(m) ==
    \/ ~HasKey(m, "primary_column")
    \/ ~IsStr(Get(m, "primary_column"))
    \/ Get(m, "primary_column").v = ""
Count(b) == IF b THEN 1 ELSE 0

\* C4: when columns is missing or is not an object no violation lies below
\* columns, columns itself is reported once, version and primary_column are
\* still evaluated, and the list (and the messages test_valid_schema
\* collects from it) holds one entry per defect.
C4_NoShortCircuit ==
    (Tested /\ ~CanDescend(metadata)) =>
        /\ Len(Below(<<"columns">>)) = 0
        /\ Len(At(<<"columns">>)) = 1
        /\ Len(At(<<"version">>)) = Count(VersionDefect(metadata))
        /\ Len(At(<<"primary_column">>)) = Count(PrimaryDefect(metadata))
        /\ Len(errors) = 1 + Count(VersionDefect(metadata))
                           + Count(PrimaryDefect(metadata))
        /\ pc = "valid" =>
               /\ Len(msgs) = Len(errors)
               /\ \A i \in 1..Len(msgs) : msgs[i] = Msg(errors[i])

C4_Witness ==
    /\ pc = "valid"
    /\ ~HasKey(metadata, "columns")
    /\ ~HasKey(metadata, "version")
    /\ Len(errors) = 2
    /\ Len(msgs) = 2
    /\ errors[1].path = <<"version">>
    /\ errors[2].path = <<"columns">>

\* C5: an entry of columns that is not an object is reported exactly once,
\* at its own path, with nothing below it; every entry that is an object
\* gets exactly the violations of the full ColumnSpec rule set.
C5_InvalidColumnObject ==
    (Tested /\ CanDescend(metadata)) =>
        LET cols == Get(metadata, "columns") IN
        /\ \A i \in 1..Len(cols.v) :
               LET p == <<"columns", cols.v[i][1]>> IN
               IF IsObj(cols.v[i][2])
               THEN Under(p) = CheckColumnSpec(cols.v[i][2], p)
               ELSE /\ Len(At(p)) = 1
                    /\ Len(Below(p)) = 0
        /\ (edit.op = "addcol" /\ ~IsObj(edit.val)) =>
               /\ HasKey(cols, edit.col[1])
               /\ Len(Under(<<"columns", edit.col[1]>>)) = 1

C5_Witness ==
    /\ Tested
    /\ edit.op = "addcol"
    /\ edit.col = <<"invalid_column_object">>
    /\ Len(Under(<<"columns", "invalid_column_object">>)) = 1
    /\ Len(Under(<<"columns", "geometry">>)) >= 1


\* The columns of metadata that are objects and hold key k.
ColumnsWith(k) ==
    {c \in ObjectColumns(metadata) : HasKey(Get(Get(metadata, "columns"), c), k)}

Field(c, k) == Get(Get(Get(metadata, "columns"), c), k)

\* The length the latest statement gave column c's bbox: n of [x] * n when
\* the statement was that one, the length of the array otherwise.
BboxLen(c) ==
    IF edit.op = "bbox" /\ edit.col = <<c>> THEN edit.n ELSE Len(Field(c, "bbox").v)

AllNumeric(a) == \A i \in 1..Len(a) : a[i].t \in {"int", "float"}

\* C6: a bbox array of length 4 or 6 with numeric elements has no violation;
\* of another length with numeric elements exactly one, the length
\* violation; of another length with a non-numeric element exactly two, the
\* length violation and the element-type violation.
C6_BboxLengthAndElements ==
    Tested =>
        \A c \in ColumnsWith("bbox") :
            LET b == Field(c, "bbox")
                vs == At(<<"columns", c, "bbox">>)
                okLen == BboxLen(c) \in {4, 6}
            IN  IsArr(b) =>
                /\ (okLen /\ AllNumeric(b.v)) => Len(vs) = 0
                /\ (~okLen /\ AllNumeric(b.v)) =>
                       /\ Len(vs) = 1
                       /\ vs[1].kind = CardinalityViolation
                       /\ vs[1].rule = "array-length"
                /\ (~okLen /\ ~AllNumeric(b.v)) =>
                       /\ Len(vs) = 2
                       /\ vs[1].rule = "array-length"
                       /\ vs[2].rule = "items-type"
                       /\ vs[2].kind = TypeViolation

C6_Witness ==
    /\ Tested
    /\ edit.op = "bbox"
    /\ edit.n = 3
    /\ edit.val.t = "str"
    /\ Len(At(<<"columns", edit.col[1], "bbox">>)) = 2

\* The 0-based position of the first element of a that repeats an earlier
\* one, read off the array assigned to geometry_types.
Repeats(a, j) == \E i \in 1..(j - 1) : a[i].v = a[j].v
FirstRepeat(a) ==
    CHOOSE j \in 1..Len(a) : Repeats(a, j) /\ \A l \in 1..(j - 1) : ~Repeats(a, l)

\* C7: for geometry_types an array of vocabulary members, a repeated
\* element gives exactly one uniqueness violation, citing the position of
\* the first repeat; pairwise distinct elements (the empty array too) give
\* none.
C7_UniqueGeometryTypes ==
    (Tested /\ edit.op = "set" /\ edit.key = "geometry_types" /\ IsArr(edit.val)
        /\ \A i \in 1..Len(edit.val.v) : edit.val.v[i].v \in GeometryTypes) =>
        LET a == edit.val.v
            u == SelectSeq(At(EditPath(edit)), LAMBDA e : e.rule = "unique-items")
        IN  IF \E j \in 1..Len(a) : Repeats(a, j)
            THEN /\ Len(u) = 1
                 /\ u[1].kind = CardinalityViolation
                 /\ u[1].index = <<FirstRepeat(a) - 1>>
            ELSE Len(u) = 0

C7_Witness ==
    /\ Tested
    /\ edit.key = "geometry_types"
    /\ IsArr(edit.val)
    /\ Len(edit.val.v) = 3
    /\ edit.val.v[1].v = "Point"
    /\ edit.val.v[2].v = "Polygon Z"
    /\ edit.val.v[3].v = "Point"
    /\ Len(errors) = 1
    /\ errors[1].rule = "unique-items"
    /\ errors[1].index = <<2>>


\* Position of a violation in the declared order of the checks: the level
\* (document, then column), the column's place in the map, the field's
\* place in the ColumnSpec declaration, the rule's place within the field.
TopRank(k) == CASE k = "version" -> 1 [] k = "primary_column" -> 2 [] OTHER -> 3
FieldRank(k) == CHOOSE i \in 1..Len(ColumnFields) : ColumnFields[i] = k
RuleRank(r) ==
    CASE r \in {"required", "type", "invalid-column-object"} -> 1
      [] r \in {"enum", "array-length", "non-empty"} -> 2
      [] OTHER -> 3
Rank(m, e) ==
    IF Len(e.path) <= 1
    THEN <<0, IF Len(e.path) = 0 THEN 0 ELSE TopRank(e.path[1]), 0, RuleRank(e.rule)>>
    ELSE <<1, IndexOf(Get(m, "columns"), e.path[2]),
           IF Len(e.path) = 2 THEN 0 ELSE FieldRank(e.path[3]),
           RuleRank(e.rule)>>

Before(r, q) ==
    \E k \in 1..4 : r[k] < q[k] /\ \A l \in 1..(k - 1) : r[l] = q[l]

ColumnLevel(s) == SelectSeq(s, LAMBDA e : Len(e.path) >= 2)

C9_CrsNullOrObject ==
    Tested =>
        /\ \A c \in ObjectColumns(metadata) :
               LET vs == At(<<"columns", c, "crs">>) IN
               IF c \in ColumnsWith("crs") /\ IsStr(Field(c, "crs"))
               THEN /\ Len(vs) = 1
                    /\ vs[1].kind = TypeViolation
               ELSE Len(vs) = 0
        /\ (edit.op = "set" /\ edit.key = "crs") =>
               Len(At(EditPath(edit))) = Count(edit.val.t = "str")

C9_Witness ==
    /\ Tested
    /\ edit.op = "set"
    /\ edit.key = "crs"
    /\ edit.val.t = "str"
    /\ edit.val.v = WktText
    /\ Len(errors) = 1
    /\ errors[1].path = <<"columns", "geometry", "crs">>
    /\ errors[1].kind = TypeViolation

\* C10: primary_column is checked for presence, string type and
\* non-emptiness only: the empty string is a violation, a non-empty string
\* that names no key of columns is not.
C10_PrimaryColumnLenient ==
    Tested =>
        /\ Len(At(<<"primary_column">>)) = Count(PrimaryDefect(metadata))
        /\ (edit.op = "set" /\ edit.key = "primary_column" /\ edit.col = <<>>) =>
               /\ Len(At(<<"primary_column">>)) = Count(edit.val.v = "")
               /\ edit.val.v = "" =>
                      At(<<"primary_column">>)[1].rule = "non-empty"

C10_Witness ==
    /\ Tested
    /\ edit.op = "set"
    /\ edit.key = "primary_column"
    /\ edit.val.v = "geom"
    /\ CanDescend(metadata)
    /\ ~HasKey(Get(metadata, "columns"), "geom")
    /\ Len(errors) = 0

=============================================================================
